---- MODULE Spec2Model ----
(***************************************************************************)
(* Model of the real-time channel session of the dashboard:                *)
(* WebSocketProvider (contexts/WebSocketContext.tsx).                      *)
(*                                                                         *)
(* The provider is a React function component.  Its state is the two       *)
(* useState cells (status, subscriptions) and the five useRef cells.  The  *)
(* handlers of a socket are closures created by one call of connect(); they*)
(* read the `subscriptions` constant of the render that created this       *)
(* connect (useCallback, line 156), so every socket and every timer that   *)
(* will call connect() carries that list with it (field `subs`).  A state  *)
(* update and the render that follows it are one step with the handler     *)
(* that requested it: a caller always uses the functions of the latest     *)
(* render.  The browser is the environment: it delivers the open, message, *)
(* error and close events of each socket and fires the timers.  The        *)
(* provider wraps the application (App.tsx, line 463) and stays mounted.   *)
(*                                                                         *)
(* Spec has every operation of the provider.  SpecSession (the connection  *)
(* life cycle), SpecRouting (the registry and the dispatcher), SpecDispatch*)
(* (the dispatcher on every kind of frame) and SpecRegistry (subscribe and *)
(* unsubscribe) each take the operations that read or write their part of  *)
(* the state; every behaviour of any of them is a behaviour of Spec.       *)
(*                                                                         *)
(* The module also models a component that calls useKeyboardShortcuts      *)
(* (hooks/useKeyboardShortcuts.ts) and the keydown listeners of the        *)
(* window: SpecShortcuts.  The hook and the provider share no state.       *)
(*                                                                         *)
(* SpecStandalone is a component that calls the standalone hook            *)
(* useWebSocket (hooks/useWebSocket.ts), which owns its sockets and its    *)
(* timeout and shares no state with the provider.  SpecChannel is the      *)
(* provider with one component that calls a topic hook                     *)
(* (useWebSocketChannel): the component renders again after each render of *)
(* the provider, and a render that is due does run (weak fairness).        *)
(***************************************************************************)
EXTENDS Integers, Sequences, FiniteSets, TLC

\* ---------------------------------------------------------------- bounds
MaxSockets == 3            \* WebSocket objects created in one run
RouteSockets == 2          \* the same, where the registry is explored in full
RegistrySockets == 1       \* the same, where only the registry operations are explored
MaxSubs == 2               \* length of the subscriptions list
MaxDelayTimers == 1        \* pending 100 ms timers of reconnect()
MaxReconnectAttempts == 2  \* the maxReconnectAttempts prop (default 5)
MaxEffects == 3            \* keydown handlers created by the effects of useKeyboardShortcuts
MaxHookSockets == 7        \* WebSocket objects created by one useWebSocket hook

\* ------------------------------------------------------- program constants
DefaultHeartbeatInterval == 30000

\* ------------------------------------------------------------ vocabulary
WebSocketStatus == {"connecting", "connected", "disconnecting", "disconnected", "error"}

WebSocketChannel ==
    {"transactions", "prices", "security", "user_activity", "system", "notifications"}

\* Callback identities, and the (topic, callback) pairs the callers of the
\* model subscribe with: two callbacks on one topic, one on the catch-all.
Callbacks == {"cb1", "cb2"}

NoChannel == "none"          \* message.channel is undefined
NoType == "notype"           \* message.type is undefined
Data == {"d1"}

\* Inbound frames: a decoded envelope, or a payload JSON.parse rejects.
FrameTypes == {"update", "pong", "ping", NoType}
FrameChannels == {"transactions", "system", "bogus", NoChannel}
Frames == [malformed : {FALSE}, type : FrameTypes, channel : FrameChannels, data : Data]
              \cup {[malformed |-> TRUE, type |-> NoType, channel |-> NoChannel, data |-> "d1"]}

Subscription(c, f) == [channel |-> c, callback |-> f]

Registrations ==
    {Subscription("transactions", "cb1"), Subscription("transactions", "cb2"),
     Subscription("system", "cb2")}

VARIABLES
    status,               \* useState<WebSocketStatus>
    subscriptions,        \* useState<Subscription[]>
    sockets,              \* every WebSocket created so far: readyState, closure, who closed it
    socketRef,            \* index into sockets, 0 = null
    reconnectAttemptsRef,
    heartbeatTimerRef,    \* id of an interval timer, 0 = undefined
    reconnectTimerRef,    \* id of a timeout, 0 = undefined
    isManualDisconnect,
    heartbeats,           \* interval timers still active (id = socket whose onopen set it)
    reconnectTimers,      \* pending timeouts of onclose (id = socket whose onclose set it)
    delayTimers,          \* pending timeouts of reconnect(), each with its connect closure
    heartbeatInterval,    \* prop, fixed at construction
    urlOk,                \* prop url: whether new WebSocket(url) succeeds
    mounted,              \* the provider's mount effect has run
    pendingClose,         \* socket whose error event was fired and whose close event follows
    lastOp,               \* the handler that ran last, with its arguments
    sent,                 \* frames written by that handler
    invoked,              \* callbacks called by that handler, in order
    removed,              \* history: pairs unsubscribed and not registered again
    closes,               \* history: non-manual closes since the counter was last reset
    resetFrom,            \* history: value of the counter the last onopen reset
    quiet                 \* history: disconnect() returned and the caller has not connected since

\* A component that calls useKeyboardShortcuts (hooks/useKeyboardShortcuts.ts).
VARIABLES
    hook,                 \* its last render: mounted, the arguments, the handler its effect added
    listeners,            \* keydown listeners attached to the window
    keyOut                \* the step that ran last and what a keydown triggered

\* A component that calls the standalone hook useWebSocket (hooks/useWebSocket.ts).
VARIABLES
    isConnected,          \* useState(false)
    reconnectCount,       \* useState(0)
    ws,                   \* useRef: index into wsSockets, 0 = null
    reconnectTimeoutRef,  \* useRef: id of a timeout, 0 = undefined
    wsSockets,            \* every WebSocket the hook created: readyState, the reconnectCount
                          \* its connect closure captured, whether disconnect() closed it
    wsTimeouts,           \* pending timeouts of onclose (id = socket whose onclose set it)
    wsMounted,            \* "no", "yes", or "gone" after the unmount
    wsOp                  \* the handler of the hook that ran last

\* A component that calls useWebSocketChannel under the provider.
VARIABLES
    consumer              \* mounted ("no", "yes", "gone"), whether its callback is memoized,
                          \* the callback its effect subscribed, the provider state of its
                          \* last render

provider == <<status, subscriptions, sockets, socketRef, reconnectAttemptsRef,
              heartbeatTimerRef, reconnectTimerRef, isManualDisconnect, heartbeats,
              reconnectTimers, delayTimers, heartbeatInterval, urlOk, mounted,
              pendingClose, lastOp, sent, invoked, removed, closes, resetFrom, quiet>>

keyboard == <<hook, listeners, keyOut>>

standalone == <<isConnected, reconnectCount, ws, reconnectTimeoutRef, wsSockets,
                wsTimeouts, wsMounted, wsOp>>

vars == <<provider, keyboard, standalone, consumer>>

refs == <<socketRef, reconnectAttemptsRef, heartbeatTimerRef, reconnectTimerRef,
          isManualDisconnect>>
timers == <<heartbeats, reconnectTimers, delayTimers>>
props == <<heartbeatInterval, urlOk>>
history == <<removed, closes, resetFrom, quiet>>

Op(name, s, m) == [op |-> name, sock |-> s, msg |-> m]

WsOp(name, s) == [op |-> name, sock |-> s]

\* No component uses useWebSocketChannel yet: nothing subscribed, and the
\* provider state it would render with is the initial one.
NoConsumer == [mounted |-> "no", stable |-> FALSE, callback |-> "none",
               seen |-> <<"disconnected", << >>>>]

\* Keyboard events: event.key (the empty string is falsy) and the modifiers.
Keys == {"k", "K", "j", ""}
KeyboardEvents ==
    [key : Keys, ctrlKey : BOOLEAN, shiftKey : BOOLEAN, altKey : BOOLEAN, metaKey : BOOLEAN]
NoEvent ==
    [key |-> "", ctrlKey |-> FALSE, shiftKey |-> FALSE, altKey |-> FALSE, metaKey |-> FALSE]

\* A hook that is not mounted: no arguments, no handler; `effects` counts the
\* handlers its effects have created.
NoHook == [mounted |-> FALSE, enabled |-> FALSE, shortcuts |-> 0, handler |-> 0, effects |-> 0]

KeyOut(name, e, acts, prevented) ==
    [op |-> name, event |-> e, triggered |-> acts, prevented |-> prevented]
NoMsg == [malformed |-> FALSE, type |-> NoType, channel |-> NoChannel, data |-> "d1"]

Init ==
    /\ status = "disconnected"
    /\ subscriptions = << >>
    /\ sockets = << >>
    /\ socketRef = 0
    /\ reconnectAttemptsRef = 0
    /\ heartbeatTimerRef = 0
    /\ reconnectTimerRef = 0
    /\ isManualDisconnect = FALSE
    /\ heartbeats = {}
    /\ reconnectTimers = {}
    /\ delayTimers = << >>
    /\ heartbeatInterval \in {0, DefaultHeartbeatInterval}
    /\ urlOk \in BOOLEAN
    /\ mounted = FALSE
    /\ pendingClose = 0
    /\ lastOp = Op("init", 0, NoMsg)
    /\ sent = << >>
    /\ invoked = << >>
    /\ removed = {}
    /\ closes = 0
    /\ resetFrom = 0
    /\ quiet = FALSE
    /\ hook = NoHook
    /\ listeners = {}
    /\ keyOut = KeyOut("init", NoEvent, {}, FALSE)
    /\ isConnected = FALSE
    /\ reconnectCount = 0
    /\ ws = 0
    /\ reconnectTimeoutRef = 0
    /\ wsSockets = << >>
    /\ wsTimeouts = {}
    /\ wsMounted = "no"
    /\ wsOp = WsOp("init", 0)
    /\ consumer = NoConsumer


\* ------------------------------------------------------- pure operators
IsOpen(ref) == ref # 0 /\ sockets[ref].readyState = "OPEN"

Frame(s, t, c) == [sock |-> s, type |-> t, channel |-> c]

NewSocket(snap) == [readyState |-> "CONNECTING", subs |-> snap, manual |-> FALSE]

\* WebSocket.close(): a socket that is connecting or open starts closing;
\* close() on a closing or closed socket does nothing.
CloseSocket(sk) ==
    IF sk.readyState \in {"CONNECTING", "OPEN"}
    THEN [sk EXCEPT !.readyState = "CLOSING", !.manual = TRUE]
    ELSE sk

\* connect(), lines 63-73 and 152-155, called through the closure `snap`:
\* the new values of the cells it writes.
connect(snap) ==
    IF IsOpen(socketRef)
    THEN [status |-> status, manual |-> isManualDisconnect,
          sockets |-> sockets, socketRef |-> socketRef]
    ELSE IF ~urlOk
    THEN [status |-> "error", manual |-> FALSE,
          sockets |-> sockets, socketRef |-> socketRef]
    ELSE [status |-> "connecting", manual |-> FALSE,
          sockets |-> Append(sockets, NewSocket(snap)),
          socketRef |-> Len(sockets) + 1]

\* connect() would call new WebSocket(url) successfully.
CreatesSocket == urlOk /\ ~IsOpen(socketRef)
Room == CreatesSocket => Len(sockets) < MaxSockets

\* disconnect(), lines 158-176: the new values of the cells it writes.  The
\* two setStatus calls are batched, the committed status is the second.  The
\* refs of the timers are not reset, only the timers they name are cleared.
disconnect ==
    [manual |-> TRUE,
     status |-> "disconnected",
     heartbeats |-> IF heartbeatTimerRef # 0 THEN heartbeats \ {heartbeatTimerRef}
                    ELSE heartbeats,
     reconnectTimers |-> IF reconnectTimerRef # 0 THEN reconnectTimers \ {reconnectTimerRef}
                         ELSE reconnectTimers,
     sockets |-> IF socketRef # 0
                 THEN [sockets EXCEPT ![socketRef] = CloseSocket(sockets[socketRef])]
                 ELSE sockets,
     socketRef |-> 0]

\* The policy with the budget test off by one.
ShouldReconnectInclusive(manual, attempts) == ~manual /\ attempts <= MaxReconnectAttempts

\* The policy without a budget.
ShouldReconnectAlways(manual, attempts) == ~manual

\* onclose, lines 139-142: the Reconnection Policy.
ShouldReconnect(manual, attempts) == ~manual /\ attempts < MaxReconnectAttempts

\* An onopen that leaves the counter as it is.
AttemptsKeptOnOpen(attempts) == attempts

\* onopen, line 78.
AttemptsAfterOpen(attempts) == 0

\* An onclose that counts a retry twice.
AttemptsAfterRetryTwice(attempts) == attempts + 2

\* onclose, line 143.
AttemptsAfterRetry(attempts) == attempts + 1

\* An onerror that reports the socket as disconnected.
StatusOnErrorDisconnected == "disconnected"

\* onerror, line 126.
StatusOnError == "error"

\* onopen, lines 89-95: one frame per element of the captured list.
ResubscribeFrames(s, subs) ==
    [i \in 1..Len(subs) |-> Frame(s, "subscribe", subs[i].channel)]

\* A subscribe without the `exists` test.
AddSubscriptionAlways(subs, c, f) == Append(subs, Subscription(c, f))

\* subscribe, lines 197-201.
AddSubscription(subs, c, f) ==
    IF \E i \in 1..Len(subs) : subs[i] = Subscription(c, f)
    THEN subs
    ELSE Append(subs, Subscription(c, f))

\* lines 210 and 220.
RemoveSubscription(subs, c, f) ==
    SelectSeq(subs, LAMBDA s : ~(s.channel = c /\ s.callback = f))

\* A send that writes whatever the state of the socket.
SendFramesUnguarded(t, c) == <<Frame(socketRef, t, c)>>

\* send(), lines 186-192.
SendFrames(t, c) == IF IsOpen(socketRef) THEN <<Frame(socketRef, t, c)>> ELSE << >>

\* Arguments a callback is called with: message.data, or the whole message
\* (its timestamp is opaque and left out).
DataArg(m) == [form |-> "data", type |-> "-", channel |-> "-", data |-> m.data]
EnvelopeArg(m) == [form |-> "envelope", type |-> m.type, channel |-> m.channel, data |-> m.data]

\* One call of a callback: the subscription it was found under, its argument,
\* and whether it threw.
Call(sub, a) == [callback |-> sub.callback, via |-> sub.channel, arg |-> a, threw |-> FALSE]

OnChannel(subs, c) == SelectSeq(subs, LAMBDA s : s.channel = c)

\* lines 107-112: message.channel is truthy.
Routed(subs, m) ==
    IF m.channel # NoChannel
    THEN LET F == OnChannel(subs, m.channel)
         IN [i \in 1..Len(F) |-> Call(F[i], DataArg(m))]
    ELSE << >>

\* lines 114-117.
Global(subs, m) ==
    LET F == OnChannel(subs, "system")
    IN [i \in 1..Len(F) |-> Call(F[i], EnvelopeArg(m))]

\* The calls made before the first callback that throws, that one included:
\* the throw leaves both forEach loops for the catch of line 119.
UntilThrow(calls, throwers) ==
    LET bad == {i \in 1..Len(calls) : calls[i].callback \in throwers}
        first == CHOOSE i \in bad : \A j \in bad : i <= j
    IN IF bad = {} THEN calls
       ELSE [i \in 1..first |-> [calls[i] EXCEPT !.threw = (i = first)]]

\* onmessage, lines 98-122, with the list `subs` its closure captured.
Dispatch(subs, m, throwers) ==
    IF m.malformed THEN << >>
    ELSE IF m.type = "pong" THEN << >>
    ELSE UntilThrow(Routed(subs, m) \o Global(subs, m), throwers)


\* ------------------------------------------------------------- actions
Quiet == pendingClose = 0     \* no socket is between its error and close events

\* The mount effect, lines 228-232.  Effects of the children (the topic
\* hooks, which subscribe) run before it; the connect it calls is the one of
\* the first render, whose `subscriptions` is the empty list.
Mount(autoConnect) ==
    /\ Quiet /\ ~mounted
    /\ autoConnect => Room
    /\ mounted' = TRUE
    /\ LET r == connect(<< >>)
       IN IF autoConnect
          THEN /\ status' = r.status
               /\ isManualDisconnect' = r.manual
               /\ sockets' = r.sockets
               /\ socketRef' = r.socketRef
          ELSE UNCHANGED <<status, isManualDisconnect, sockets, socketRef>>
    /\ lastOp' = Op("mount", 0, NoMsg)
    /\ sent' = << >> /\ invoked' = << >>
    /\ UNCHANGED <<subscriptions, reconnectAttemptsRef, heartbeatTimerRef,
                   reconnectTimerRef, timers, props, keyboard, standalone, consumer, pendingClose, history>>

\* connect() called by a consumer of the context, lines 63-156.
Connect ==
    /\ Quiet /\ mounted /\ Room
    /\ LET r == connect(subscriptions)
       IN /\ status' = r.status
          /\ isManualDisconnect' = r.manual
          /\ sockets' = r.sockets
          /\ socketRef' = r.socketRef
    /\ quiet' = FALSE
    /\ lastOp' = Op("connect", 0, NoMsg)
    /\ sent' = << >> /\ invoked' = << >>
    /\ UNCHANGED <<subscriptions, reconnectAttemptsRef, heartbeatTimerRef,
                   reconnectTimerRef, timers, props, keyboard, standalone, consumer, mounted, pendingClose,
                   removed, closes, resetFrom>>

\* disconnect() called by a consumer of the context, lines 158-176.
Disconnect ==
    /\ Quiet /\ mounted
    /\ LET r == disconnect
       IN /\ isManualDisconnect' = r.manual
          /\ status' = r.status
          /\ heartbeats' = r.heartbeats
          /\ reconnectTimers' = r.reconnectTimers
          /\ sockets' = r.sockets
          /\ socketRef' = r.socketRef
    /\ quiet' = TRUE
    /\ lastOp' = Op("disconnect", 0, NoMsg)
    /\ sent' = << >> /\ invoked' = << >>
    /\ UNCHANGED <<subscriptions, reconnectAttemptsRef, heartbeatTimerRef,
                   reconnectTimerRef, delayTimers, props, keyboard, standalone, consumer, mounted, pendingClose,
                   removed, closes, resetFrom>>

\* reconnect(), lines 178-184: disconnect(), then a 100 ms timeout that no
\* ref records; its callback calls the connect of the render reconnect is of.
Reconnect ==
    /\ Quiet /\ mounted
    /\ Len(delayTimers) < MaxDelayTimers
    /\ LET r == disconnect
       IN /\ isManualDisconnect' = r.manual
          /\ status' = r.status
          /\ heartbeats' = r.heartbeats
          /\ reconnectTimers' = r.reconnectTimers
          /\ sockets' = r.sockets
          /\ socketRef' = r.socketRef
    /\ delayTimers' = Append(delayTimers, subscriptions)
    /\ quiet' = FALSE
    /\ lastOp' = Op("reconnect", 0, NoMsg)
    /\ sent' = << >> /\ invoked' = << >>
    /\ UNCHANGED <<subscriptions, reconnectAttemptsRef, heartbeatTimerRef,
                   reconnectTimerRef, props, keyboard, standalone, consumer, mounted, pendingClose,
                   removed, closes, resetFrom>>

\* The timeout of reconnect() fires, lines 180-183.
DelayTimerFire ==
    /\ Quiet /\ delayTimers # << >> /\ Room
    /\ reconnectAttemptsRef' = 0
    /\ LET r == connect(Head(delayTimers))
       IN /\ status' = r.status
          /\ isManualDisconnect' = r.manual
          /\ sockets' = r.sockets
          /\ socketRef' = r.socketRef
    /\ delayTimers' = Tail(delayTimers)
    /\ closes' = 0
    /\ lastOp' = Op("delayTimer", 0, NoMsg)
    /\ sent' = << >> /\ invoked' = << >>
    /\ UNCHANGED <<subscriptions, heartbeatTimerRef, reconnectTimerRef, heartbeats,
                   reconnectTimers, props, keyboard, standalone, consumer, mounted, pendingClose,
                   removed, resetFrom, quiet>>

\* The timeout set by the onclose of socket t fires, lines 146-148: it calls
\* the connect whose closure that socket's handlers belong to.
ReconnectTimerFire(t) ==
    /\ Quiet /\ t \in reconnectTimers /\ Room
    /\ LET r == connect(sockets[t].subs)
       IN /\ status' = r.status
          /\ isManualDisconnect' = r.manual
          /\ sockets' = r.sockets
          /\ socketRef' = r.socketRef
    /\ reconnectTimers' = reconnectTimers \ {t}
    /\ lastOp' = Op("reconnectTimer", t, NoMsg)
    /\ sent' = << >> /\ invoked' = << >>
    /\ UNCHANGED <<subscriptions, reconnectAttemptsRef, heartbeatTimerRef,
                   reconnectTimerRef, heartbeats, delayTimers, props, keyboard, standalone, consumer, mounted,
                   pendingClose, history>>

\* The interval set by the onopen of socket t fires, lines 82-86.
HeartbeatFire(t) ==
    /\ Quiet /\ t \in heartbeats
    /\ sent' = IF sockets[t].readyState = "OPEN"
               THEN <<Frame(t, "ping", NoChannel)>> ELSE << >>
    /\ lastOp' = Op("heartbeat", t, NoMsg)
    /\ invoked' = << >>
    /\ UNCHANGED <<status, subscriptions, sockets, refs, timers, props, keyboard, standalone, consumer, mounted,
                   pendingClose, history>>

\* send(message), lines 186-192.
Send ==
    /\ Quiet /\ mounted
    /\ sent' = SendFrames("app", NoChannel)
    /\ lastOp' = Op("send", 0, NoMsg)
    /\ invoked' = << >>
    /\ UNCHANGED <<status, subscriptions, sockets, refs, timers, props, keyboard, standalone, consumer, mounted,
                   pendingClose, history>>

\* The Registry holds the pair (c, f): `exists` of line 198.
Registered(c, f) == \E i \in 1..Len(subscriptions) : subscriptions[i] = Subscription(c, f)

\* subscribe(channel, callback), lines 194-206; the step is named
\* "subscribeAgain" when the pair was registered already.
Subscribe(c, f) ==
    /\ Quiet
    /\ Len(AddSubscription(subscriptions, c, f)) <= MaxSubs
    /\ subscriptions' = AddSubscription(subscriptions, c, f)
    /\ sent' = SendFrames("subscribe", c)
    /\ removed' = removed \ {Subscription(c, f)}
    /\ lastOp' = Op(IF Registered(c, f) THEN "subscribeAgain" ELSE "subscribe", 0, NoMsg)
    /\ invoked' = << >>
    /\ UNCHANGED <<status, sockets, refs, timers, props, keyboard, standalone, consumer, mounted, pendingClose,
                   closes, resetFrom, quiet>>

\* The pairs subscribe() was called with: each is registered, or was removed.
Issued == {subscriptions[i] : i \in 1..Len(subscriptions)} \cup removed

\* Lines 210-215 and 220-224 are the same statements.
Remove(name, c, f) ==
    /\ subscriptions' = RemoveSubscription(subscriptions, c, f)
    /\ sent' = SendFrames("unsubscribe", c)
    /\ removed' = IF Subscription(c, f) \in Issued
                  THEN removed \cup {Subscription(c, f)} ELSE removed
    /\ lastOp' = Op(name, 0, NoMsg)
    /\ invoked' = << >>
    /\ UNCHANGED <<status, sockets, refs, timers, props, keyboard, standalone, consumer, mounted, pendingClose,
                   closes, resetFrom, quiet>>

\* The function subscribe(c, f) returned, lines 209-216.
UnsubscribeFn(c, f) == Quiet /\ Subscription(c, f) \in Issued /\ Remove("unsubscribeFn", c, f)

\* unsubscribe(channel, callback), lines 219-225.
Unsubscribe(c, f) == Quiet /\ Remove("unsubscribe", c, f)

\* ------------------------------------------------------- socket events
\* onopen of socket s, lines 75-96.
SocketOpen(s) ==
    /\ Quiet /\ s \in 1..Len(sockets) /\ sockets[s].readyState = "CONNECTING"
    /\ sockets' = [sockets EXCEPT ![s].readyState = "OPEN"]
    /\ status' = "connected"
    /\ reconnectAttemptsRef' = AttemptsAfterOpen(reconnectAttemptsRef)
    /\ IF heartbeatInterval > 0
       THEN heartbeatTimerRef' = s /\ heartbeats' = heartbeats \cup {s}
       ELSE UNCHANGED <<heartbeatTimerRef, heartbeats>>
    /\ sent' = ResubscribeFrames(s, sockets[s].subs)
    /\ resetFrom' = reconnectAttemptsRef
    /\ closes' = 0
    /\ lastOp' = Op("open", s, NoMsg)
    /\ invoked' = << >>
    /\ UNCHANGED <<subscriptions, socketRef, reconnectTimerRef, isManualDisconnect,
                   reconnectTimers, delayTimers, props, keyboard, standalone, consumer, mounted, pendingClose,
                   removed, quiet>>

\* onmessage of socket s, lines 98-122; the callbacks of `throwers` throw.
SocketMessage(s, m, throwers) ==
    /\ Quiet /\ s \in 1..Len(sockets) /\ sockets[s].readyState = "OPEN"
    /\ invoked' = Dispatch(sockets[s].subs, m, throwers)
    /\ lastOp' = Op("message", s, m)
    /\ sent' = << >>
    /\ UNCHANGED <<status, subscriptions, sockets, refs, timers, props, keyboard, standalone, consumer, mounted,
                   pendingClose, history>>

\* onerror of socket s, lines 124-127.  The browser fires error and close
\* from one task, with readyState already CLOSED.
SocketError(s) ==
    /\ Quiet /\ s \in 1..Len(sockets) /\ sockets[s].readyState # "CLOSED"
    /\ sockets' = [sockets EXCEPT ![s].readyState = "CLOSED"]
    /\ status' = StatusOnError
    /\ pendingClose' = s
    /\ lastOp' = Op("error", s, NoMsg)
    /\ sent' = << >> /\ invoked' = << >>
    /\ UNCHANGED <<subscriptions, refs, timers, props, keyboard, standalone, consumer, mounted, history>>

\* onclose of socket s, lines 129-150.
SocketClose(s) ==
    /\ s \in 1..Len(sockets)
    /\ \/ Quiet /\ sockets[s].readyState # "CLOSED"
       \/ pendingClose = s
    /\ pendingClose' = 0
    /\ sockets' = [sockets EXCEPT ![s].readyState = "CLOSED"]
    /\ status' = "disconnected"
    /\ heartbeats' = IF heartbeatTimerRef # 0 THEN heartbeats \ {heartbeatTimerRef}
                     ELSE heartbeats
    /\ IF ShouldReconnect(isManualDisconnect, reconnectAttemptsRef)
       THEN /\ reconnectAttemptsRef' = AttemptsAfterRetry(reconnectAttemptsRef)
            /\ reconnectTimerRef' = s
            /\ reconnectTimers' = reconnectTimers \cup {s}
       ELSE UNCHANGED <<reconnectAttemptsRef, reconnectTimerRef, reconnectTimers>>
    /\ closes' = IF isManualDisconnect THEN closes ELSE closes + 1
    /\ lastOp' = Op("close", s, NoMsg)
    /\ sent' = << >> /\ invoked' = << >>
    /\ UNCHANGED <<subscriptions, socketRef, heartbeatTimerRef, isManualDisconnect,
                   delayTimers, props, keyboard, standalone, consumer, mounted, removed, resetFrom, quiet>>

\* ------------------------------------------------- useKeyboardShortcuts
\* An optional modifier of a shortcut: left out, or a boolean.
Undefined == "undefined"
Bool(b) == IF b THEN "true" ELSE "false"

Shortcut(k, ctrl, shift, alt, meta, a) ==
    [key |-> k, ctrlKey |-> ctrl, shiftKey |-> shift, altKey |-> alt, metaKey |-> meta,
     action |-> a]

\* The arrays a caller passes, by identity: the array of the tests, the one
\* of useCommandPalette (lines 42-56), one with an empty and an upper-case
\* key, and a new array with the contents of the first.
ShortcutLists == 1..4

ShortcutsOf(l) ==
    CASE l = 2 -> <<Shortcut("k", Bool(TRUE), Undefined, Undefined, Undefined, "onOpen"),
                    Shortcut("k", Undefined, Undefined, Undefined, Bool(TRUE), "onOpen")>>
      [] l = 3 -> <<Shortcut("", Undefined, Undefined, Undefined, Undefined, "never"),
                    Shortcut("K", Undefined, Bool(TRUE), Undefined, Undefined, "shifted")>>
      [] OTHER -> <<Shortcut("k", Bool(TRUE), Undefined, Undefined, Undefined, "action")>>

\* String.prototype.toLowerCase on the keys of the model.
toLowerCase(k) == IF k = "K" THEN "k" ELSE k

\* The predicate of shortcuts.find, lines 19-28.
Matches(s, e) ==
    /\ s.key # ""
    /\ toLowerCase(s.key) = toLowerCase(e.key)
    /\ s.ctrlKey = Undefined \/ s.ctrlKey = Bool(e.ctrlKey)
    /\ s.shiftKey = Undefined \/ s.shiftKey = Bool(e.shiftKey)
    /\ s.altKey = Undefined \/ s.altKey = Bool(e.altKey)
    /\ s.metaKey = Undefined \/ s.metaKey = Bool(e.metaKey)

\* handleKeyDown, lines 17-34: the actions it runs for event e, none or the
\* action of the first shortcut that matches.
handleKeyDown(list, e) ==
    LET found == {i \in 1..Len(list) : Matches(list[i], e)}
        first == CHOOSE i \in found : \A j \in found : i <= j
    IN IF e.key = "" \/ found = {} THEN {} ELSE {list[first].action}

\* A handler function, with the array its closure holds.
Handler(id, l) == [id |-> id, shortcuts |-> l]

\* An effect that adds its listener whatever `enabled` is.
EffectListensAlways(en) == TRUE

\* Line 15: the effect returns before adding a listener when not enabled.
EffectListens(en) == en

\* The effect, lines 14-38, run for the arguments (l, en) with the window's
\* listeners ls: the render it leaves and the listeners.
RunEffect(ls, l, en) ==
    IF EffectListens(en)
    THEN [hook |-> [mounted |-> TRUE, enabled |-> en, shortcuts |-> l,
                    handler |-> hook.effects + 1, effects |-> hook.effects + 1],
          listeners |-> ls \cup {Handler(hook.effects + 1, l)}]
    ELSE [hook |-> [mounted |-> TRUE, enabled |-> en, shortcuts |-> l,
                    handler |-> 0, effects |-> hook.effects],
          listeners |-> ls]

\* The cleanup the last effect returned, line 37; none when it returned early.
Cleanup ==
    IF hook.handler # 0 THEN listeners \ {Handler(hook.handler, hook.shortcuts)}
    ELSE listeners

\* The component mounts: first render, then the effect.
HookMount(l, en) ==
    /\ ~hook.mounted /\ hook.effects < MaxEffects
    /\ LET r == RunEffect(listeners, l, en)
       IN hook' = r.hook /\ listeners' = r.listeners
    /\ keyOut' = KeyOut("mount", NoEvent, {}, FALSE)
    /\ UNCHANGED <<provider, standalone, consumer>>

\* A render with another array or another `enabled` (deps of line 38): the
\* cleanup of the previous effect, then the effect.  A render with the same
\* two values runs neither.
HookRender(l, en) ==
    /\ hook.mounted /\ hook.effects < MaxEffects
    /\ l # hook.shortcuts \/ en # hook.enabled
    /\ LET r == RunEffect(Cleanup, l, en)
       IN hook' = r.hook /\ listeners' = r.listeners
    /\ keyOut' = KeyOut("render", NoEvent, {}, FALSE)
    /\ UNCHANGED <<provider, standalone, consumer>>

\* The component unmounts: the cleanup of the last effect.
HookUnmount ==
    /\ hook.mounted
    /\ listeners' = Cleanup
    /\ hook' = [NoHook EXCEPT !.effects = hook.effects]
    /\ keyOut' = KeyOut("unmount", NoEvent, {}, FALSE)
    /\ UNCHANGED <<provider, standalone, consumer>>

\* The window dispatches a keydown event to its listeners.
KeyDown(e) ==
    /\ LET acts == {[handler |-> h.id, action |-> a] :
                       h \in listeners, a \in {"action", "onOpen", "never", "shifted"}}
           ran == {x \in acts : \E h \in listeners :
                      h.id = x.handler /\ x.action \in handleKeyDown(ShortcutsOf(h.shortcuts), e)}
       IN keyOut' = KeyOut("keydown", e, ran, ran # {})
    /\ UNCHANGED <<hook, listeners, provider, standalone, consumer>>

\* ---------------------------------------------- hooks/useWebSocket.ts
\* The cells connect() and disconnect() of the hook write.
Cells == [ws |-> ws, wsSockets |-> wsSockets, wsTimeouts |-> wsTimeouts]

\* connect() of the render whose reconnectCount is c, lines 28-67: a new
\* socket whose handlers are closures of that render.  It tests nothing and
\* closes nothing.
hookConnect(cells, c) ==
    [cells EXCEPT !.wsSockets = Append(@, [readyState |-> "CONNECTING", count |-> c,
                                           manual |-> FALSE]),
                  !.ws = Len(cells.wsSockets) + 1]

\* disconnect(), lines 69-77: clears the timeout the ref names and closes the
\* current socket.  It sets no flag a close handler could read.
hookDisconnect(cells) ==
    [ws |-> 0,
     wsSockets |-> IF cells.ws # 0
                   THEN [cells.wsSockets EXCEPT ![cells.ws] = CloseSocket(@)]
                   ELSE cells.wsSockets,
     wsTimeouts |-> IF reconnectTimeoutRef # 0
                    THEN cells.wsTimeouts \ {reconnectTimeoutRef}
                    ELSE cells.wsTimeouts]

\* The effect of lines 87-93 runs again when `connect` is a new function,
\* that is when reconnectCount has changed (deps of line 67): its cleanup
\* calls disconnect(), then the new connect() is called.
EffectRerun(cells, c) == hookConnect(hookDisconnect(cells), c)

\* onclose, line 57, with the reconnectCount c its closure captured.
WsShouldReconnect(c) == c < MaxReconnectAttempts

SetCells(cells) ==
    /\ ws' = cells.ws
    /\ wsSockets' = cells.wsSockets
    /\ wsTimeouts' = cells.wsTimeouts
    /\ Len(cells.wsSockets) <= MaxHookSockets

\* The component mounts: the effect calls connect(), line 88.
UseMount ==
    /\ wsMounted = "no"
    /\ SetCells(hookConnect(Cells, reconnectCount))
    /\ wsMounted' = "yes"
    /\ wsOp' = WsOp("mount", 0)
    /\ UNCHANGED <<isConnected, reconnectCount, reconnectTimeoutRef,
                   provider, keyboard, consumer>>

\* The caller calls the disconnect the hook returned, lines 69-77.
UseDisconnect ==
    /\ wsMounted = "yes"
    /\ SetCells(hookDisconnect(Cells))
    /\ wsOp' = WsOp("disconnect", 0)
    /\ UNCHANGED <<isConnected, reconnectCount, reconnectTimeoutRef, wsMounted,
                   provider, keyboard, consumer>>

\* The component unmounts: the cleanup of the effect, lines 90-92.
UseUnmount ==
    /\ wsMounted = "yes"
    /\ SetCells(hookDisconnect(Cells))
    /\ wsMounted' = "gone"
    /\ wsOp' = WsOp("unmount", 0)
    /\ UNCHANGED <<isConnected, reconnectCount, reconnectTimeoutRef,
                   provider, keyboard, consumer>>

\* onopen of socket s, lines 32-36.  The state setters do nothing once the
\* component is unmounted; a reconnectCount that changes makes a new
\* connect, and the effect runs again.
WsOpen(s) ==
    /\ s \in 1..Len(wsSockets) /\ wsSockets[s].readyState = "CONNECTING"
    /\ LET opened == [Cells EXCEPT !.wsSockets[s].readyState = "OPEN"]
       IN IF wsMounted = "yes"
          THEN /\ isConnected' = TRUE
               /\ reconnectCount' = 0
               /\ SetCells(IF reconnectCount # 0 THEN EffectRerun(opened, 0) ELSE opened)
          ELSE /\ SetCells(opened)
               /\ UNCHANGED <<isConnected, reconnectCount>>
    /\ wsOp' = WsOp("open", s)
    /\ UNCHANGED <<reconnectTimeoutRef, wsMounted, provider, keyboard, consumer>>

\* onclose of socket s, lines 52-63.
WsClose(s) ==
    /\ s \in 1..Len(wsSockets) /\ wsSockets[s].readyState # "CLOSED"
    /\ wsSockets' = [wsSockets EXCEPT ![s].readyState = "CLOSED"]
    /\ isConnected' = IF wsMounted = "yes" THEN FALSE ELSE isConnected
    /\ IF WsShouldReconnect(wsSockets[s].count)
       THEN reconnectTimeoutRef' = s /\ wsTimeouts' = wsTimeouts \cup {s}
       ELSE UNCHANGED <<reconnectTimeoutRef, wsTimeouts>>
    /\ wsOp' = WsOp("close", s)
    /\ UNCHANGED <<reconnectCount, ws, wsMounted, provider, keyboard, consumer>>

\* The timeout set by the onclose of socket t fires, lines 58-61: it counts
\* and calls the connect of its own closure; then, if the component is
\* mounted, the render with the new reconnectCount runs the effect again.
WsTimeoutFire(t) ==
    /\ t \in wsTimeouts
    /\ LET fired == [Cells EXCEPT !.wsTimeouts = @ \ {t}]
           again == hookConnect(fired, wsSockets[t].count)
       IN IF wsMounted = "yes"
          THEN /\ reconnectCount' = reconnectCount + 1
               /\ SetCells(EffectRerun(again, reconnectCount + 1))
          ELSE /\ SetCells(again)
               /\ UNCHANGED reconnectCount
    /\ wsOp' = WsOp("timeout", t)
    /\ UNCHANGED <<isConnected, reconnectTimeoutRef, wsMounted,
                   provider, keyboard, consumer>>

\* ------------------------------------------- useWebSocketChannel
\* The topic the component listens to (useLiveTransactions, line 280).
ConsumerChannel == "transactions"

\* The provider's useState values.  Each change of one renders the provider,
\* which builds a new context value (lines 238-246), and that renders every
\* component that called useWebSocket().
ProviderState == <<status, subscriptions>>

\* The provider rendered since the component's last render.
RenderDue == consumer.mounted = "yes" /\ consumer.seen # ProviderState

\* The callback of the next render: the same function when the component
\* memoizes it; a new function when it is an inline arrow function
\* (part_004:398).  The effect removes the previous function before it adds
\* the new one, so two names stand for the fresh identities.
NextCallback(c) ==
    IF c.stable THEN c.callback
    ELSE CHOOSE f \in Callbacks : f # c.callback

\* First render and effect of the component, lines 271-276 (enabled = true):
\* subscribe(channel, callback).
ChannelMount(stable) ==
    /\ Quiet /\ consumer.mounted = "no"
    /\ Len(AddSubscription(subscriptions, ConsumerChannel, "cb1")) <= MaxSubs
    /\ subscriptions' = AddSubscription(subscriptions, ConsumerChannel, "cb1")
    /\ sent' = SendFrames("subscribe", ConsumerChannel)
    /\ removed' = removed \ {Subscription(ConsumerChannel, "cb1")}
    /\ consumer' = [mounted |-> "yes", stable |-> stable, callback |-> "cb1",
                    seen |-> ProviderState]
    /\ lastOp' = Op("channelMount", 0, NoMsg)
    /\ invoked' = << >>
    /\ UNCHANGED <<status, sockets, refs, timers, props, keyboard, standalone, mounted,
                   pendingClose, closes, resetFrom, quiet>>

\* A render of the component after a render of the provider, channel and
\* enabled unchanged.  The effect's dependencies are [channel, callback,
\* enabled, subscribe] (line 276) and subscribe is stable (lines 186-192,
\* 217): with the same callback the effect does not run; with a new one its
\* cleanup runs (the function subscribe returned, lines 209-216) and then
\* its body (subscribe, lines 194-206).
ChannelRender ==
    /\ Quiet /\ RenderDue
    /\ LET old == consumer.callback
           new == NextCallback(consumer)
       IN /\ consumer' = [consumer EXCEPT !.callback = new, !.seen = ProviderState]
          /\ IF new = old
             THEN /\ sent' = << >>
                  /\ UNCHANGED <<subscriptions, removed>>
             ELSE /\ subscriptions' =
                       AddSubscription(RemoveSubscription(subscriptions, ConsumerChannel, old),
                                       ConsumerChannel, new)
                  /\ sent' = SendFrames("unsubscribe", ConsumerChannel)
                               \o SendFrames("subscribe", ConsumerChannel)
                  /\ removed' = (removed \cup {Subscription(ConsumerChannel, old)})
                                   \ {Subscription(ConsumerChannel, new)}
    /\ lastOp' = Op("channelRender", 0, NoMsg)
    /\ invoked' = << >>
    /\ UNCHANGED <<status, sockets, refs, timers, props, keyboard, standalone, mounted,
                   pendingClose, closes, resetFrom, quiet>>

\* The component unmounts: the effect's cleanup, lines 209-216.
ChannelUnmount ==
    /\ Quiet /\ consumer.mounted = "yes"
    /\ subscriptions' = RemoveSubscription(subscriptions, ConsumerChannel, consumer.callback)
    /\ sent' = SendFrames("unsubscribe", ConsumerChannel)
    /\ removed' = removed \cup {Subscription(ConsumerChannel, consumer.callback)}
    /\ consumer' = [consumer EXCEPT !.mounted = "gone"]
    /\ lastOp' = Op("channelUnmount", 0, NoMsg)
    /\ invoked' = << >>
    /\ UNCHANGED <<status, sockets, refs, timers, props, keyboard, standalone, mounted,
                   pendingClose, closes, resetFrom, quiet>>

\* The sockets of the next state fit the bound n.
Fits(n) == Len(sockets') <= n

\* The steps of the provider and of its environment, with at most n sockets
\* and inbound frames of `frames`.
NextOf(n, frames) ==
    \/ \E a \in BOOLEAN : Mount(a) /\ Fits(n)
    \/ Connect /\ Fits(n)
    \/ Disconnect
    \/ Reconnect
    \/ DelayTimerFire /\ Fits(n)
    \/ \E t \in 1..n : ReconnectTimerFire(t) /\ Fits(n)
    \/ \E t \in 1..n : HeartbeatFire(t)
    \/ Send
    \/ \E r \in Registrations : Subscribe(r.channel, r.callback)
    \/ \E r \in Registrations : UnsubscribeFn(r.channel, r.callback)
    \/ \E r \in Registrations : Unsubscribe(r.channel, r.callback)
    \/ \E s \in 1..n : SocketOpen(s)
    \/ \E s \in 1..n, m \in frames, th \in SUBSET Callbacks : SocketMessage(s, m, th)
    \/ \E s \in 1..n : SocketError(s)
    \/ \E s \in 1..n : SocketClose(s)

Next == NextOf(MaxSockets, Frames)
Spec == Init /\ [][Next]_vars

\* The connection life cycle: the operations and events that read or write
\* the status, the refs and the timers.  The registry stays empty; no step
\* below reads it except to copy it into a closure.
NextSession ==
    \/ \E a \in BOOLEAN : Mount(a)
    \/ Connect
    \/ Disconnect
    \/ Reconnect
    \/ DelayTimerFire
    \/ \E t \in 1..MaxSockets : ReconnectTimerFire(t)
    \/ \E t \in 1..MaxSockets : HeartbeatFire(t)
    \/ Send
    \/ \E s \in 1..MaxSockets : SocketOpen(s)
    \/ \E s \in 1..MaxSockets : SocketError(s)
    \/ \E s \in 1..MaxSockets : SocketClose(s)

SpecSession == Init /\ [][NextSession]_vars

\* The registry and the dispatcher, with the operations and events that open
\* a socket from a closure of connect or run its handlers: the mount effect,
\* connect(), the retry timer, and the open, message and close events; a
\* valid url, heartbeat off.
RoutingFrames ==
    {m \in Frames : m.malformed \/ (m.type \in {"update", "pong"} /\ m.channel # "bogus")}

InitRouting == Init /\ urlOk = TRUE /\ heartbeatInterval = 0

NextRouting ==
    \/ \E a \in BOOLEAN : Mount(a) /\ Fits(RouteSockets)
    \/ Connect /\ Fits(RouteSockets)
    \/ \E t \in 1..RouteSockets : ReconnectTimerFire(t) /\ Fits(RouteSockets)
    \/ \E r \in Registrations : Subscribe(r.channel, r.callback)
    \/ \E r \in Registrations : UnsubscribeFn(r.channel, r.callback)
    \/ \E r \in Registrations : Unsubscribe(r.channel, r.callback)
    \/ \E s \in 1..RouteSockets : SocketOpen(s)
    \/ \E s \in 1..RouteSockets, m \in RoutingFrames, th \in SUBSET Callbacks :
          SocketMessage(s, m, th)
    \/ \E s \in 1..RouteSockets : SocketClose(s)

SpecRouting == InitRouting /\ [][NextRouting]_vars

\* The dispatcher on every kind of inbound frame: the callers subscribe and
\* connect, the sockets open and receive; nothing closes.
NextDispatch ==
    \/ \E a \in BOOLEAN : Mount(a) /\ Fits(RouteSockets)
    \/ Connect /\ Fits(RouteSockets)
    \/ \E r \in Registrations : Subscribe(r.channel, r.callback)
    \/ \E s \in 1..RouteSockets : SocketOpen(s)
    \/ \E s \in 1..RouteSockets, m \in Frames, th \in SUBSET Callbacks :
          SocketMessage(s, m, th)

SpecDispatch == InitRouting /\ [][NextDispatch]_vars

\* The Registry under repeated subscribe and unsubscribe, with sockets that
\* receive data frames on the topics of the registrations; no callback
\* throws, nothing closes.
RegistryFrames ==
    {m \in Frames : ~m.malformed /\ m.type = "update" /\ m.channel \in {"transactions", "system"}}

NextRegistry ==
    \/ \E a \in BOOLEAN : Mount(a) /\ Fits(RegistrySockets)
    \/ Connect /\ Fits(RegistrySockets)
    \/ \E r \in Registrations : Subscribe(r.channel, r.callback)
    \/ \E r \in Registrations : UnsubscribeFn(r.channel, r.callback)
    \/ \E r \in Registrations : Unsubscribe(r.channel, r.callback)
    \/ \E s \in 1..RegistrySockets : SocketOpen(s)
    \/ \E s \in 1..RegistrySockets, m \in RegistryFrames : SocketMessage(s, m, {})

SpecRegistry == InitRouting /\ [][NextRegistry]_vars

\* A component using the standalone hook useWebSocket, and the browser; the
\* provider stays as constructed.
InitStandalone == Init /\ urlOk = TRUE /\ heartbeatInterval = DefaultHeartbeatInterval

NextStandalone ==
    \/ UseMount
    \/ UseDisconnect
    \/ UseUnmount
    \/ \E s \in 1..MaxHookSockets : WsOpen(s)
    \/ \E s \in 1..MaxHookSockets : WsClose(s)
    \/ \E t \in 1..MaxHookSockets : WsTimeoutFire(t)

SpecStandalone == InitStandalone /\ [][NextStandalone]_vars

\* A component using a topic hook under the provider, the connection and
\* the browser.  React runs a render that is due: weak fairness of
\* ChannelRender.
NextChannel ==
    \/ \E a \in BOOLEAN : Mount(a) /\ Fits(RouteSockets)
    \/ Connect /\ Fits(RouteSockets)
    \/ \E t \in 1..RouteSockets : ReconnectTimerFire(t) /\ Fits(RouteSockets)
    \/ \E s \in 1..RouteSockets : SocketOpen(s)
    \/ \E s \in 1..RouteSockets : SocketClose(s)
    \/ \E st \in BOOLEAN : ChannelMount(st)
    \/ ChannelRender
    \/ ChannelUnmount

SpecChannel == InitRouting /\ [][NextChannel]_vars /\ WF_vars(ChannelRender)

\* A component using useKeyboardShortcuts and the keyboard; the provider
\* stays as constructed.
InitShortcuts == Init /\ urlOk = TRUE /\ heartbeatInterval = DefaultHeartbeatInterval

NextShortcuts ==
    \/ \E l \in ShortcutLists, en \in BOOLEAN : HookMount(l, en)
    \/ \E l \in ShortcutLists, en \in BOOLEAN : HookRender(l, en)
    \/ HookUnmount
    \/ \E e \in KeyboardEvents : KeyDown(e)

SpecShortcuts == InitShortcuts /\ [][NextShortcuts]_vars

TypeOK ==
    /\ status \in WebSocketStatus
    /\ Len(subscriptions) <= MaxSubs
    /\ Len(sockets) <= MaxSockets
    /\ socketRef \in 0..Len(sockets)
    /\ reconnectAttemptsRef \in 0..MaxReconnectAttempts


\* ------------------------------------------------------------- claims
Min(a, b) == IF a < b THEN a ELSE b

\* The step that led here dispatched a decoded frame that is not `pong`.
Dispatched == lastOp.op = "message" /\ ~lastOp.msg.malformed /\ lastOp.msg.type # "pong"

\* Callbacks the Registry holds for channel c.
RegisteredFor(c) ==
    {subscriptions[i].callback : i \in {j \in 1..Len(subscriptions) : subscriptions[j].channel = c}}

\* Indexes of the calls of callback f made by the last handler.
CallsOf(f) == {j \in 1..Len(invoked) : invoked[j].callback = f}

\* C1: every inbound frame that is not `pong` and carries a channel C invokes,
\* with the frame's data, exactly the callbacks registered for C in the
\* Registry when the frame arrives.
C1_RoutesToRegistered ==
    (Dispatched /\ lastOp.msg.channel # NoChannel) =>
        {invoked[j].callback : j \in {k \in 1..Len(invoked) : invoked[k].arg = DataArg(lastOp.msg)}}
            = RegisteredFor(lastOp.msg.channel)

\* C2: after subscribe(T, cb), an envelope with channel T delivered on the
\* open transport invokes cb exactly once, with the envelope's data.
C2_DeliveredExactlyOnce ==
    (Dispatched /\ lastOp.msg.type = "update" /\ lastOp.sock = socketRef) =>
        \A f \in RegisteredFor(lastOp.msg.channel) :
            /\ Cardinality(CallsOf(f)) = 1
            /\ \A j \in CallsOf(f) : invoked[j].arg = DataArg(lastOp.msg)

\* C3: once a (topic, callback) pair is unsubscribed, by the returned function
\* or by unsubscribe, no frame dispatched afterwards invokes that callback for
\* that topic.
C3_NoDeliveryAfterUnsubscribe ==
    lastOp.op = "message" =>
        \A j \in 1..Len(invoked) : Subscription(invoked[j].via, invoked[j].callback) \notin removed

\* C9: on every transition to connected the session sends exactly one
\* `subscribe` frame for each topic that has a callback in the Registry at
\* that instant, and none for any other topic.
C9_ResubscribesRegistry ==
    lastOp.op = "open" =>
        \A c \in WebSocketChannel :
            Cardinality({i \in 1..Len(sent) : sent[i].type = "subscribe" /\ sent[i].channel = c})
                = IF RegisteredFor(c) # {} THEN 1 ELSE 0

\* C10: when a callback throws while a frame is dispatched, every other
\* callback the dispatcher has for the frame's channel, and every `system`
\* callback, is still invoked for that frame.
C10_ListenerIsolation ==
    (Dispatched /\ \E j \in 1..Len(invoked) : invoked[j].threw) =>
        LET subs == sockets[lastOp.sock].subs
            due == Routed(subs, lastOp.msg) \o Global(subs, lastOp.msg)
        IN \A k \in 1..Len(due) :
               \E j \in 1..Len(invoked) :
                   /\ invoked[j].callback = due[k].callback
                   /\ invoked[j].via = due[k].via


\* The current socket is open or still being opened.
TransportLive ==
    socketRef # 0 /\ sockets[socketRef].readyState \in {"CONNECTING", "OPEN"}

\* C4: connect() called while the session is connected or connecting opens
\* no new transport, replaces no socket and leaves the status unchanged.
C4_ConnectIdempotent ==
    [][(lastOp'.op = "connect" /\ status \in {"connected", "connecting"} /\ TransportLive)
          => (sockets' = sockets /\ socketRef' = socketRef /\ status' = status)]_vars

\* The step that led here was a close event that was not a manual one.
NonManualClose == lastOp.op = "close" /\ ~isManualDisconnect

C6_OpenResetsBudget ==
    /\ lastOp.op = "open" => (reconnectAttemptsRef = 0 /\ status = "connected")
    /\ reconnectAttemptsRef = Min(closes, MaxReconnectAttempts)
    /\ (NonManualClose /\ closes <= MaxReconnectAttempts) => lastOp.sock \in reconnectTimers

C6_Witness ==
    /\ resetFrom >= 1
    /\ NonManualClose /\ closes = MaxReconnectAttempts
    /\ reconnectAttemptsRef = MaxReconnectAttempts
    /\ lastOp.sock \in reconnectTimers

\* C7: after disconnect() returns, and until the caller calls connect() or
\* reconnect(), no heartbeat timer and no reconnect timer fires.
C7_NoTimerAfterDisconnect ==
    quiet => lastOp.op \notin {"heartbeat", "reconnectTimer", "delayTimer"}

\* C8: the close event of a socket that disconnect() closed schedules no
\* reconnect timer and does not increment the reconnect counter, whenever it
\* is delivered.
C8_ManualCloseNoRetry ==
    [][(lastOp'.op = "close" /\ sockets[lastOp'.sock].manual)
          => (reconnectTimers' = reconnectTimers
              /\ reconnectAttemptsRef' = reconnectAttemptsRef)]_vars

\* The handler that ran last received a frame that is malformed: a payload
\* that is not JSON, or a decoded object without a `type`.
MalformedFrame ==
    lastOp.op = "message" /\ (lastOp.msg.malformed \/ lastOp.msg.type = NoType)

\* C11: a malformed inbound frame (not valid JSON, or decoded without a
\* `type` field) is discarded: no topic or system callback is invoked for it.
C11_MalformedDiscarded == MalformedFrame => invoked = << >>

\* C12: send(message) while the current socket is missing or not open writes
\* nothing and changes neither the status, the Registry, the sockets, the
\* refs nor the timers; and nothing is written later on its behalf: a
\* message of the application is only ever written by the send() that was
\* given it, to the socket that is open at that moment.
C12_SendDropsWhenNotOpen ==
    [][/\ (lastOp'.op = "send" /\ ~IsOpen(socketRef)) =>
            /\ sent' = << >>
            /\ UNCHANGED <<status, subscriptions, sockets, refs, timers>>
       /\ \A i \in 1..Len(sent') :
              sent'[i].type = "app" =>
                  /\ lastOp'.op = "send"
                  /\ IsOpen(socketRef) /\ sent'[i].sock = socketRef]_vars

\* send() was called while the current socket is still connecting.
C12_Witness ==
    /\ lastOp.op = "send" /\ sent = << >>
    /\ socketRef # 0 /\ sockets[socketRef].readyState = "CONNECTING"

\* No pair occurs twice in the list.
NoDuplicates(subs) == \A i, j \in 1..Len(subs) : subs[i] = subs[j] => i = j

C14_ReconnectFreshBudget ==
    [][(lastOp.op = "delayTimer" /\ lastOp'.op = "close" /\ sockets[lastOp'.sock].manual)
          => (reconnectAttemptsRef' = 0 /\ reconnectTimers' = reconnectTimers)]_vars

\* C15: the Reconnection Policy.  A close that finds the manual flag off and
\* attempts < maxReconnectAttempts increments attempts by one and schedules
\* exactly one connect(), its own; any other close schedules nothing and
\* leaves attempts alone; every close leaves the status `disconnected`.  So
\* in a run of closes with no open in between each of the first
\* maxReconnectAttempts closes schedules a retry and the next one none.
C15_PolicyRule ==
    [][lastOp'.op = "close" =>
          LET s == lastOp'.sock
          IN /\ status' = "disconnected"
             /\ IF ~isManualDisconnect /\ reconnectAttemptsRef < MaxReconnectAttempts
                THEN /\ reconnectAttemptsRef' = reconnectAttemptsRef + 1
                     /\ s \notin reconnectTimers
                     /\ reconnectTimers' = reconnectTimers \cup {s}
                     /\ reconnectTimerRef' = s
                ELSE /\ reconnectAttemptsRef' = reconnectAttemptsRef
                     /\ reconnectTimers' = reconnectTimers
             /\ ~isManualDisconnect =>
                    /\ closes' <= MaxReconnectAttempts => s \in reconnectTimers'
                    /\ closes' > MaxReconnectAttempts => s \notin reconnectTimers']_vars

\* The scenario of the claim (maxReconnectAttempts = 2 in this model):
\* socket 1 opened and closed, every retry closed as well, and the close of
\* the last retry schedules no further one.
C15_Witness ==
    /\ heartbeatInterval > 0 /\ heartbeatTimerRef = 1
    /\ Len(sockets) = MaxReconnectAttempts + 1
    /\ \A s \in 1..Len(sockets) : sockets[s].readyState = "CLOSED"
    /\ lastOp = Op("close", MaxReconnectAttempts + 1, NoMsg)
    /\ closes = MaxReconnectAttempts + 1
    /\ reconnectAttemptsRef = MaxReconnectAttempts /\ reconnectTimers = {}
    /\ status = "disconnected"

\* C16: while the session is connected, its current socket open and
\* heartbeatInterval > 0, the heartbeat timer of the current socket is
\* active; a heartbeat that fires when its socket is not open writes
\* nothing; with heartbeatInterval = 0 no ping is ever written.
C16_HeartbeatWhileConnected ==
    /\ (status = "connected" /\ IsOpen(socketRef) /\ heartbeatInterval > 0)
           => socketRef \in heartbeats
    /\ (lastOp.op = "heartbeat" /\ sockets[lastOp.sock].readyState # "OPEN") => sent = << >>
    /\ heartbeatInterval = 0 => \A i \in 1..Len(sent) : sent[i].type # "ping"

\* C17: an inbound control frame, of type `pong` or `ping`, with or without a
\* channel, is consumed by the dispatcher: no callback is invoked for it.
C17_ControlFramesConsumed ==
    (lastOp.op = "message" /\ ~lastOp.msg.malformed /\ lastOp.msg.type \in {"pong", "ping"})
        => invoked = << >>

\* C18: for every decoded inbound frame that has a type other than `pong`,
\* whatever its channel, every callback registered under `system` in the
\* Registry is invoked with the entire envelope.
C18_SystemCatchAll ==
    (Dispatched /\ lastOp.msg.type # NoType) =>
        \A f \in RegisteredFor("system") :
            \E j \in 1..Len(invoked) :
                /\ invoked[j].callback = f /\ invoked[j].via = "system"
                /\ invoked[j].arg = EnvelopeArg(lastOp.msg)

\* Sockets that are open or being opened; each has the handlers its
\* connect() attached.
LiveSockets == {s \in 1..Len(sockets) : sockets[s].readyState \in {"CONNECTING", "OPEN"}}

\* C20: at every moment at most one socket of the session is open or being
\* opened.
C20_OneLiveSocket == Cardinality(LiveSockets) <= 1

\* C19: useKeyboardShortcuts reacts to key events only while it is mounted
\* with enabled = true.  Otherwise no keydown listener of the hook is
\* attached to the window, and a keydown event, matching or not, triggers no
\* action and is not default-prevented; while mounted and enabled exactly
\* the handler of the last effect is attached.
C19_ShortcutsOnlyWhileEnabled ==
    /\ listeners # {} => (hook.mounted /\ hook.enabled)
    /\ (hook.mounted /\ hook.enabled) => listeners = {Handler(hook.handler, hook.shortcuts)}
    /\ (keyOut.op = "keydown" /\ ~(hook.mounted /\ hook.enabled)) =>
           (keyOut.triggered = {} /\ ~keyOut.prevented)

\* The hook was mounted and enabled, was unmounted, and then Ctrl+K, which
\* the shortcuts of every list but one match, was pressed.
C19_Witness ==
    /\ ~hook.mounted /\ hook.effects >= 1
    /\ keyOut.op = "keydown"
    /\ keyOut.event = [key |-> "k", ctrlKey |-> TRUE, shiftKey |-> FALSE,
                        altKey |-> FALSE, metaKey |-> FALSE]
    /\ keyOut.triggered = {} /\ listeners = {}

\* C21: the error event of a socket sets the status to `error` and changes
\* nothing else of the session: no ref, no timer, not the Registry.  The
\* close event that follows it sets the status to `disconnected` and applies
\* the Reconnection Policy as any close does: a retry and one more attempt
\* when the manual flag is off and attempts < maxReconnectAttempts, and
\* nothing otherwise.
C21_ErrorThenClose ==
    [][/\ lastOp'.op = "error" =>
            /\ status' = "error"
            /\ pendingClose' = lastOp'.sock
            /\ UNCHANGED <<subscriptions, refs, timers>>
       /\ (lastOp'.op = "close" /\ pendingClose # 0) =>
            /\ lastOp'.sock = pendingClose
            /\ status' = "disconnected"
            /\ IF ShouldReconnect(isManualDisconnect, reconnectAttemptsRef)
               THEN /\ reconnectAttemptsRef' = reconnectAttemptsRef + 1
                    /\ reconnectTimers' = reconnectTimers \cup {pendingClose}
               ELSE UNCHANGED <<reconnectAttemptsRef, reconnectTimers>>]_vars

\* The error event of an open socket with a heartbeat: the status is `error`,
\* the heartbeat is still active, the close event is still to come.
C21_Witness ==
    /\ lastOp.op = "error" /\ status = "error"
    /\ pendingClose = lastOp.sock
    /\ lastOp.sock \in heartbeats /\ lastOp.sock = socketRef

\* C22: when connect() fails to open the transport (new WebSocket(url)
\* throws), the failure is handled like a non-manual close: a retry is
\* scheduled, or the budget is exhausted and the session is `disconnected`.
C22_OpenFailureRetried ==
    (lastOp.op = "connect" /\ ~urlOk) =>
        \/ reconnectTimers # {}
        \/ (reconnectAttemptsRef = MaxReconnectAttempts /\ status = "disconnected")

\* C23: an inbound data frame whose channel is not one of the six topics
\* invokes no callback at all, neither a topic callback nor a `system` one.
C23_UnknownChannelDropped ==
    (Dispatched /\ lastOp.msg.type = "update" /\ lastOp.msg.channel \notin WebSocketChannel
        /\ lastOp.msg.channel # NoChannel) => invoked = << >>

\* C24: the reconnect counter stays within 0..maxReconnectAttempts; it goes
\* up only by one, only in a close event, and exactly when that close
\* schedules a retry; it goes back to 0 only in an open event or in the
\* timeout of reconnect().
C24_CounterDiscipline ==
    [][/\ reconnectAttemptsRef' \in 0..MaxReconnectAttempts
       /\ reconnectAttemptsRef' > reconnectAttemptsRef =>
            /\ reconnectAttemptsRef' = reconnectAttemptsRef + 1
            /\ lastOp'.op = "close"
            /\ lastOp'.sock \notin reconnectTimers
            /\ reconnectTimers' = reconnectTimers \cup {lastOp'.sock}
       /\ reconnectAttemptsRef' < reconnectAttemptsRef =>
            (reconnectAttemptsRef' = 0 /\ lastOp'.op \in {"open", "delayTimer"})
       /\ ~(reconnectTimers' \subseteq reconnectTimers) =>
            reconnectAttemptsRef' = reconnectAttemptsRef + 1]_vars

\* The counter was at its maximum and an open event has set it to 0.
C24_Witness ==
    /\ lastOp.op = "open" /\ resetFrom = MaxReconnectAttempts
    /\ reconnectAttemptsRef = 0

\* The step that leads to the next state is an event of a socket that is not
\* the current one.
StaleEvent ==
    /\ lastOp'.op \in {"open", "message", "error", "close"}
    /\ lastOp'.sock # socketRef

\* C25: an event of a socket that is not the session's current socket
\* changes neither the status, the reconnect counter, the heartbeat timer
\* nor the reconnect timer.
C25_StaleEventsInert ==
    [][StaleEvent =>
          UNCHANGED <<status, reconnectAttemptsRef, heartbeatTimerRef, heartbeats,
                      reconnectTimerRef, reconnectTimers>>]_vars

\* C26: when a callback is removed from the Registry, an `unsubscribe` frame
\* for its topic is written only if the Registry is left without a callback
\* for that topic, so that a topic with a callback stays subscribed on the
\* connection.
C26_TopicStaysSubscribed ==
    [][Len(subscriptions') < Len(subscriptions) =>
          \A i \in 1..Len(sent') :
              sent'[i].type = "unsubscribe" =>
                  ~\E j \in 1..Len(subscriptions') :
                      subscriptions'[j].channel = sent'[i].channel]_vars

\* C27: every outstanding timer is the one its ref names: a heartbeat
\* interval is heartbeatTimerRef, a retry timeout is reconnectTimerRef, and
\* reconnect() leaves no timeout outside the refs.
C27_NoOrphanTimer ==
    /\ heartbeats \subseteq {heartbeatTimerRef}
    /\ reconnectTimers \subseteq {reconnectTimerRef}
    /\ delayTimers = << >>

\* C28: in the standalone hook, the close event of a socket that disconnect()
\* closed schedules no reconnect.
C28_StandaloneDisconnectFinal ==
    [][(wsOp'.op = "close" /\ wsSockets[wsOp'.sock].manual) => wsTimeouts' = wsTimeouts]_vars

\* Sockets of the standalone hook that are open or being opened.
WsLive == {s \in 1..Len(wsSockets) : wsSockets[s].readyState \in {"CONNECTING", "OPEN"}}

\* C29: in the standalone hook reconnectCount never exceeds
\* maxReconnectAttempts and at most one socket of the hook is alive.
C29_StandaloneBounded ==
    /\ reconnectCount <= MaxReconnectAttempts
    /\ Cardinality(WsLive) <= 1

\* C30: after a component using a topic hook is mounted, with channel and
\* enabled unchanged, the Registry is updated finitely many times: from some
\* point on no step changes it.
C30_TopicHookQuiescent == <>[][subscriptions' = subscriptions]_vars

====
